---- MODULE Spec2Model ----
(***************************************************************************)
(* A model of the selenium page-object framework: the config reader        *)
(* (Utilities/ConfigReader.py), the element action layer                   *)
(* (Pages/Basepage.py), the login page object and its tests                *)
(* (Pages/LoginPage.py, tests/test_loginAsStandardUser.py) and the pytest  *)
(* fixtures that provision and release the browser session                 *)
(* (tests/conftest.py).                                                    *)
(*                                                                         *)
(* Python strings whose characters matter (locator names, key names,       *)
(* browser names, config values) are sequences of one-character strings,   *)
(* so that endswith, upper, lower and %-interpolation are computed.        *)
(***************************************************************************)
EXTENDS Integers, Sequences, FiniteSets, TLC

VARIABLES
    store,        \* config.ini as ConfigParser parses it: section -> (option -> raw value)
    cfgCall,      \* the last readconfig call made by the standalone reader client
    cfgResult,    \* what that call returned or raised
    cfgStored,    \* the raw value the store held for that (section, key) when it was called
    phase,        \* position of the pytest run: setup, navigate, test, teardown, end
    cli_browser,  \* request.config.getoption("--browser-name")
    headless,     \* request.config.getoption("--headless")
    files,        \* driver binaries present in drivers/
    browser_name, \* local of the driver fixture
    consulted,    \* number of config lookups made by _get_browser_name
    attempts,     \* provisioning tiers tried by _create_driver, in order
    sessions,     \* every browser session launched in this run
    web_driver,   \* index in sessions of the session the driver fixture yielded (0: none)
    outcome,      \* how the run's setup / test body ended
    pc,           \* position inside the current Action Layer call
    op,           \* the current Action Layer call: name, locator, text / key name
    by_type,      \* local: the resolved strategy
    locator_value,\* local: the selector read from the registry
    key,          \* local of press_key: the special-key code
    polls,        \* polls made by the current WebDriverWait
    page,         \* the elements matching the selector at the last poll, in document order
    element,      \* the element handle the wait returned (0: none)
    found,        \* the element handles driver.find_elements returned
    trace,        \* driver calls made by the current call, in order
    logs,         \* log lines emitted by the current call
    lookups,      \* registry lookups made by the current call
    err,          \* the exception raised inside the current call (NoError: none)
    result,       \* how the current call ended as seen by its caller
    site,         \* what the site under test shows: page, field contents, error banner
    script,       \* the login test being run ("": none) and the calls it has made
    flow          \* driver events of the login test, in order

cfgVars == <<cfgCall, cfgResult, cfgStored>>
runVars == <<phase, cli_browser, headless, files, browser_name, consulted,
             attempts, sessions, web_driver, outcome>>
actVars == <<pc, op, by_type, locator_value, key, polls, page, element,
             found, trace, logs,
             lookups, err, result>>
flowVars == <<site, script, flow>>
vars == <<store, cfgVars, runVars, actVars, flowVars>>

(***************************************************************************)
(* Bounds of the model.                                                    *)
(***************************************************************************)
MaxPolls == 2     \* polls a WebDriverWait makes before its timeout elapses

(***************************************************************************)
(* Strings.                                                                *)
(***************************************************************************)
Letters ==
    << <<"a","A">>, <<"b","B">>, <<"c","C">>, <<"d","D">>, <<"e","E">>,
       <<"f","F">>, <<"g","G">>, <<"h","H">>, <<"i","I">>, <<"j","J">>,
       <<"k","K">>, <<"l","L">>, <<"m","M">>, <<"n","N">>, <<"o","O">>,
       <<"p","P">>, <<"q","Q">>, <<"r","R">>, <<"s","S">>, <<"t","T">>,
       <<"u","U">>, <<"v","V">>, <<"w","W">>, <<"x","X">>, <<"y","Y">>,
       <<"z","Z">> >>

UpperChar(c) ==
    IF \E i \in 1..Len(Letters) : Letters[i][1] = c
    THEN Letters[CHOOSE i \in 1..Len(Letters) : Letters[i][1] = c][2]
    ELSE c

LowerChar(c) ==
    IF \E i \in 1..Len(Letters) : Letters[i][2] = c
    THEN Letters[CHOOSE i \in 1..Len(Letters) : Letters[i][2] = c][1]
    ELSE c

\* str.upper() / str.lower()
Upper(s) == IF s = <<>> THEN <<>> ELSE [i \in 1..Len(s) |-> UpperChar(s[i])]
Lower(s) == IF s = <<>> THEN <<>> ELSE [i \in 1..Len(s) |-> LowerChar(s[i])]

\* str.endswith(suffix)
EndsWith(s, suffix) ==
    /\ Len(s) >= Len(suffix)
    /\ SubSeq(s, Len(s) - Len(suffix) + 1, Len(s)) = suffix

(***************************************************************************)
(* Errors.  An exception is a record: its class, the string it carries     *)
(* and, for the provisioning error, the manual-binary path it states.      *)
(***************************************************************************)
Error(type, arg) == [type |-> type, arg |-> arg, path |-> <<>>]
NoError == Error("none", <<>>)

\* The classes the spec calls ConfigKeyNotFound.
ConfigKeyNotFound == {"NoSectionError", "NoOptionError"}

(***************************************************************************)
(* ConfigReader.readconfig: a fresh ConfigParser reads the file and        *)
(* get(section, key) is returned.  ConfigParser lower-cases option names   *)
(* (optionxform) and applies BasicInterpolation to the raw value: "%%"     *)
(* becomes "%", and a "%" followed by anything else than "%" or "(" is an  *)
(* InterpolationSyntaxError.  The raw values of the model hold no "(".     *)
(***************************************************************************)
Ok(val) == [ok |-> TRUE, val |-> val, err |-> NoError]
Fail(e) == [ok |-> FALSE, val |-> <<>>, err |-> e]

RECURSIVE Interpolate(_)
Interpolate(rest) ==
    IF rest = <<>> THEN Ok(<<>>)
    ELSE IF Head(rest) # "%"
    THEN LET r == Interpolate(Tail(rest))
         IN  IF r.ok THEN Ok(<<Head(rest)>> \o r.val) ELSE r
    ELSE IF Len(rest) >= 2 /\ rest[2] = "%"
    THEN LET r == Interpolate(SubSeq(rest, 3, Len(rest)))
         IN  IF r.ok THEN Ok(<<"%">> \o r.val) ELSE r
    ELSE Fail(Error("InterpolationSyntaxError", rest))

readconfig(st, section, option) ==
    IF section \notin DOMAIN st
    THEN Fail(Error("NoSectionError", <<>>))
    ELSE IF Lower(option) \notin DOMAIN st[section]
    THEN Fail(Error("NoOptionError", option))
    ELSE Interpolate(st[section][Lower(option)])

(***************************************************************************)
(* The config file of the model.  Option names are stored as the parser    *)
(* keeps them (lower-cased).                                                *)
(***************************************************************************)
K_a_xpath == <<"a","_","x","p","a","t","h">>
K_a_id == <<"a","_","i","d">>
K_a_css == <<"a","_","c","s","s">>
K_url == <<"s","a","u","c","e","_","d","e","m","o","_","u","r","l">>
K_default_browser == <<"d","e","f","a","u","l","t","_","b","r","o","w","s","e","r">>

V_selector == <<"/","/","a">>          \* //a
V_percent == <<"5","0","%">>           \* 50%   (a lone %)
V_escaped == <<"a","%","%">>           \* a%%   (read as a%)
V_url == <<"u">>
V_Firefox == <<"F","i","r","e","f","o","x">>

RawValues == {V_selector, V_percent, V_escaped}

LocatorsSection ==
    (K_a_xpath :> V_selector) @@ (K_a_id :> V_percent) @@
    (K_a_css :> V_escaped) @@ (K_url :> V_url)

StoreFull == ("locators" :> LocatorsSection) @@
             ("browser" :> (K_default_browser :> V_Firefox))
StoreNoBrowser == ("locators" :> LocatorsSection)
StoreNoUrl == ("locators" :> (K_a_xpath :> V_selector)) @@
              ("browser" :> (K_a_id :> V_selector))

StoreBadDefault == ("locators" :> (K_a_xpath :> V_selector)) @@
                   ("browser" :> (K_default_browser :> V_percent))

Stores == {StoreFull, StoreNoBrowser, StoreNoUrl, StoreBadDefault}

(***************************************************************************)
(* The standalone reader client: lookups interleaved with edits of the     *)
(* file made from outside the program.                                     *)
(***************************************************************************)
Sections == {"locators", "browser"}
EditedOptions == {K_a_xpath, <<"A","_","I","D">>}

NoStored == [present |-> FALSE, raw |-> <<>>]
NoCall == [made |-> FALSE, section |-> "", option |-> <<>>]

\* What the file holds for (section, option), as the parser will see it.
Stored(st, section, option) ==
    IF section \in DOMAIN st /\ Lower(option) \in DOMAIN st[section]
    THEN [present |-> TRUE, raw |-> st[section][Lower(option)]]
    ELSE NoStored

\* f with x mapped to v (x added to the domain when new).
Put(f, x, v) == [y \in (DOMAIN f) \cup {x} |-> IF y = x THEN v ELSE f[y]]
\* f without x.
Drop(f, x) == [y \in (DOMAIN f) \ {x} |-> f[y]]
EmptySection == [y \in {} |-> <<>>]

ExternalWrite(section, option, raw) ==
    /\ store' = Put(store, section,
                    Put(IF section \in DOMAIN store THEN store[section]
                        ELSE EmptySection, Lower(option), raw))
    /\ UNCHANGED <<cfgVars, runVars, actVars,
                   flowVars>>

ExternalRemoveOption(section, option) ==
    /\ section \in DOMAIN store
    /\ Lower(option) \in DOMAIN store[section]
    /\ store' = Put(store, section, Drop(store[section], Lower(option)))
    /\ UNCHANGED <<cfgVars, runVars, actVars,
                   flowVars>>

ExternalRemoveSection(section) ==
    /\ section \in DOMAIN store
    /\ store' = Drop(store, section)
    /\ UNCHANGED <<cfgVars, runVars, actVars,
                   flowVars>>

ReadConfigCall(section, option) ==
    /\ cfgCall' = [made |-> TRUE, section |-> section, option |-> option]
    /\ cfgStored' = Stored(store, section, option)
    /\ cfgResult' = readconfig(store, section, option)
    /\ UNCHANGED <<store, runVars, actVars,
                   flowVars>>

(***************************************************************************)
(* WebActions._get_by_type: the strategy is decided by the name's suffix,  *)
(* tested in the order of the if / elif chain.                             *)
(***************************************************************************)
S_XPATH == <<"_","X","P","A","T","H">>
S_ID == <<"_","I","D">>
S_NAME == <<"_","N","A","M","E">>
S_CSS == <<"_","C","S","S">>
S_CLASS == <<"_","C","L","A","S","S">>
S_LINKTEXT == <<"_","L","I","N","K","T","E","X","T">>
S_PARTIALLINKTEXT ==
    <<"_","P","A","R","T","I","A","L","L","I","N","K","T","E","X","T">>

Resolved(by) == [ok |-> TRUE, by |-> by, err |-> NoError]
Unresolved(e) == [ok |-> FALSE, by |-> "", err |-> e]

\* A resolver that tests the link-text suffix without its underscore.
_get_by_type_loose(locator) ==
    IF EndsWith(locator, S_XPATH) THEN Resolved("xpath")
    ELSE IF EndsWith(locator, S_ID) THEN Resolved("id")
    ELSE IF EndsWith(locator, S_NAME) THEN Resolved("name")
    ELSE IF EndsWith(locator, S_CSS) THEN Resolved("css selector")
    ELSE IF EndsWith(locator, S_CLASS) THEN Resolved("class name")
    ELSE IF EndsWith(locator, Tail(S_LINKTEXT)) THEN Resolved("link text")
    ELSE IF EndsWith(locator, S_PARTIALLINKTEXT)
    THEN Resolved("partial link text")
    ELSE Unresolved(Error("UnsupportedLocatorType", locator))

_get_by_type(locator) ==
    IF EndsWith(locator, S_XPATH) THEN Resolved("xpath")
    ELSE IF EndsWith(locator, S_ID) THEN Resolved("id")
    ELSE IF EndsWith(locator, S_NAME) THEN Resolved("name")
    ELSE IF EndsWith(locator, S_CSS) THEN Resolved("css selector")
    ELSE IF EndsWith(locator, S_CLASS) THEN Resolved("class name")
    ELSE IF EndsWith(locator, S_LINKTEXT) THEN Resolved("link text")
    ELSE IF EndsWith(locator, S_PARTIALLINKTEXT)
    THEN Resolved("partial link text")
    ELSE Unresolved(Error("UnsupportedLocatorType", locator))

\* The locator names the calls of the model are made with: every
\* recognised suffix and some unrecognised tails, behind some prefixes.
Prefixes == {<<>>, <<"a">>}
Tails == {S_XPATH, S_ID, S_NAME, S_CSS, S_CLASS, S_LINKTEXT, S_PARTIALLINKTEXT,
          <<>>, <<"_","x","p","a","t","h">>, <<"X","P","A","T","H">>,
          Tail(S_PARTIALLINKTEXT), <<"_","I","D","X">>, <<"_">>}
LocatorNames == {p \o t : p \in Prefixes, t \in Tails}

(***************************************************************************)
(* selenium's Keys: attribute name -> special-key code.                    *)
(***************************************************************************)
Keys ==
    (<<"N","U","L","L">> :> <<"\\ue000">>) @@
    (<<"T","A","B">> :> <<"\\ue004">>) @@
    (<<"R","E","T","U","R","N">> :> <<"\\ue006">>) @@
    (<<"E","N","T","E","R">> :> <<"\\ue007">>) @@
    (<<"E","S","C","A","P","E">> :> <<"\\ue00c">>)

\* getattr(Keys, name, None)
NoKey == <<>>
getattr_Keys(name) == IF name \in DOMAIN Keys THEN Keys[name] ELSE NoKey

\* A key lookup that forgets to upper-case the name.
KeyFor_exact(key_name) == getattr_Keys(key_name)

\* WebActions.press_key, line 95: getattr(Keys, key_name.upper(), None)
KeyFor(key_name) == getattr_Keys(Upper(key_name))

KeyNames == {<<"e","n","t","e","r">>, <<"E","N","T","E","R">>,
             <<"E","n","T","e","R">>, <<"t","a","b">>, <<"T","a","b">>,
             <<"E","s","c","a","p","e">>, <<"a">>, <<>>}
Texts == {<<"u">>}

(***************************************************************************)
(* The login page object (Pages/LoginPage.py), its tests                   *)
(* (tests/test_loginAsStandardUser.py) and the site they run against.      *)
(***************************************************************************)
\* The locator names LoginPage passes to the Action Layer.
L_username == <<"L","o","g","i","n","P","a","g","e","U","s","e","r","n","a",
    "m","e","i","n","p","u","t","F","i","e","l","d","_","X","P","A","T",
    "H">>
L_password == <<"L","o","g","i","n","P","a","g","e","P","a","s","s","w","o",
    "r","d","i","n","p","u","t","F","i","e","l","d","_","X","P","A","T",
    "H">>
L_button == <<"L","o","g","i","n","P","a","g","e","l","o","g","i","n","B",
    "u","t","t","o","n","_","X","P","A","T","H">>
L_title == <<"I","n","v","e","n","t","o","r","y","P","a","g","e","T","i",
    "t","l","e","_","X","P","A","T","H">>
L_error == <<"l","o","c","k","e","d","o","u","t","u","s","e","r","v","a",
    "l","i","d","a","t","i","o","n","_","X","P","A","T","H">>

\* The selectors the registry holds for them.
V_username == <<"/","/","u">>
V_password == <<"/","/","p">>
V_button == <<"/","/","b">>
V_title == <<"/","/","t">>
V_error == <<"/","/","e">>

StoreLogin ==
    ("locators" :> ((Lower(L_username) :> V_username) @@
                    (Lower(L_password) :> V_password) @@
                    (Lower(L_button) :> V_button) @@
                    (Lower(L_title) :> V_title) @@
                    (Lower(L_error) :> V_error) @@
                    (K_url :> V_url))) @@
    ("browser" :> (K_default_browser :> V_Firefox))

\* The texts of the tests.
T_standard_user == <<"standard_user">>
T_locked_out_user == <<"locked_out_user">>
T_secret_sauce == <<"secret_sauce">>
Products == "Products"
LockedOutMessage == "Epic sadface: Sorry, this user has been locked out."
MismatchMessage ==
    "Epic sadface: Username and password do not match any user in this service"

\* The site after driver.get(url): the login page with empty fields.
FreshSite ==
    [page |-> "login", username |-> <<>>, password |-> <<>>, error |-> ""]

\* The site after the login button is clicked: the inventory page for
\* standard_user / secret_sauce, the locked-out banner for locked_out_user /
\* secret_sauce, the mismatch banner otherwise.
Login(st) ==
    IF st.username = T_standard_user /\ st.password = T_secret_sauce
    THEN [st EXCEPT !.page = "inventory", !.error = ""]
    ELSE IF st.username = T_locked_out_user /\ st.password = T_secret_sauce
    THEN [st EXCEPT !.error = LockedOutMessage]
    ELSE [st EXCEPT !.error = MismatchMessage]

\* The site after a driver call on the element that selector locates.
SiteAfter(st, selector, call, arg) ==
    IF st.page # "login" THEN st
    ELSE CASE call = "clear" /\ selector = V_username ->
                [st EXCEPT !.username = <<>>]
           [] call = "clear" /\ selector = V_password ->
                [st EXCEPT !.password = <<>>]
           [] call = "send_keys" /\ selector = V_username ->
                [st EXCEPT !.username = @ \o arg]
           [] call = "send_keys" /\ selector = V_password ->
                [st EXCEPT !.password = @ \o arg]
           [] call = "click" /\ selector = V_button -> Login(st)
           [] OTHER -> st

\* WebElement.text of the element that selector locates.
ElementText(st, selector) ==
    CASE selector = V_title /\ st.page = "inventory" -> Products
      [] selector = V_error /\ st.page = "login" -> st.error
      [] OTHER -> ""

(***************************************************************************)
(* The Action Layer (WebActions).  A call runs step by step: the key       *)
(* lookup (press_key only), _get_by_type, readconfig, the WebDriverWait,   *)
(* the element's driver calls, the log line.                               *)
(***************************************************************************)
OpNames == {"click", "type", "clear", "submit", "press_key", "is_displayed"}

NoOp == [name |-> "", locator |-> <<>>, text |-> <<>>]
NoResult == [kind |-> "none", val |-> "", err |-> NoError]
Returned(v) == [kind |-> "return", val |-> v, err |-> NoError]
Raised(e) == [kind |-> "raise", val |-> "", err |-> e]

\* The LoginPage methods that return self._get_element(locator).text.
TextReads == {"get_inventory_page_title", "get_lockedoutuservalidation"}

\* Element calls in which type sends its text without clearing the field.
DriverActions_no_clear(name) ==
    CASE name = "click" -> <<"click">>
      [] name = "type" -> <<"send_keys">>
      [] name = "clear" -> <<"clear">>
      [] name = "submit" -> <<"submit">>
      [] name = "press_key" -> <<"send_keys">>
      [] name \in TextReads -> <<"text">>
      [] OTHER -> <<>>

\* The element calls an operation makes once it holds the element.
DriverActions(name) ==
    CASE name = "click" -> <<"click">>
      [] name = "type" -> <<"clear", "send_keys">>
      [] name = "clear" -> <<"clear">>
      [] name = "submit" -> <<"submit">>
      [] name = "press_key" -> <<"send_keys">>
      [] name \in TextReads -> <<"text">>
      [] OTHER -> <<>>

\* The expected condition the operation's WebDriverWait polls.
WaitCondition(name) ==
    IF name = "is_displayed" THEN "visibility_of_element_located"
    ELSE IF name = "get_element_count" THEN "presence_of_element_located"
    ELSE "element_to_be_clickable"

\* The log line at the end of the operation ("": it writes none).
SuccessLog(name) ==
    CASE name = "click" -> "Clicked on element"
      [] name = "type" -> "Typed into element"
      [] name = "clear" -> "Cleared element"
      [] name = "submit" -> "Submitted form via element"
      [] name = "press_key" -> "Pressed key on element"
      [] name = "is_displayed" -> "Element is displayed"
      [] name = "get_element_count" -> "Found elements"
      [] OTHER -> ""

\* An operation that swallows the timeout of its wait, as is_displayed does.
Catches_timeout(name, e) ==
    name = "is_displayed" \/ e.type = "TimeoutException"

\* Whether the operation has a handler for e.  Only is_displayed has a
\* try block, and its "except Exception" takes every error of the model.
Catches(name, e) == name = "is_displayed"

\* The exception e is raised inside the current call.
Raises(e) ==
    /\ err' = e
    /\ pc' = "done"
    /\ IF Catches(op.name, e)
       THEN /\ logs' = Append(logs, "Element is NOT displayed")
            /\ result' = Returned("False")
       ELSE /\ logs' = logs
            /\ result' = Raised(e)

ArgsFor(name) ==
    CASE name = "type" -> Texts
      [] name = "press_key" -> KeyNames
      [] OTHER -> {<<>>}

\* LoginPage: each method is the calls it makes, in order.
Invocation(name, locator, text) ==
    [name |-> name, locator |-> locator, text |-> text]

login_as_standard_user(username, password) ==
    <<Invocation("type", L_username, username),
      Invocation("type", L_password, password),
      Invocation("click", L_button, <<>>)>>

get_inventory_page_title ==
    Invocation("get_inventory_page_title", L_title, <<>>)

login_as_lockedout_user(username, password) ==
    <<Invocation("type", L_username, username),
      Invocation("type", L_password, password),
      Invocation("click", L_button, <<>>)>>

get_lockedoutuservalidation ==
    Invocation("get_lockedoutuservalidation", L_error, <<>>)

\* tests/test_loginAsStandardUser.py: the calls of each test body, the last
\* one being the call whose value the test asserts on.
Tests == {"test_verify_login_as_standard_user",
          "test_verify_login_as_Locked_out_user"}

TestCalls(test) ==
    IF test = "test_verify_login_as_standard_user"
    THEN login_as_standard_user(T_standard_user, T_secret_sauce)
             \o <<get_inventory_page_title>>
    ELSE login_as_lockedout_user(T_locked_out_user, T_secret_sauce)
             \o <<get_lockedoutuservalidation>>

Asserted(test) ==
    IF test = "test_verify_login_as_standard_user"
    THEN Products ELSE LockedOutMessage

NoScript == [test |-> "", step |-> 0]

\* The login test has made its last call and is at its assert.
AtAssert == script.test # "" /\ script.step = Len(TestCalls(script.test))

\* The next call of the login test.
LoginCall ==
    /\ phase = "test"
    /\ pc = "idle"
    /\ script.test # ""
    /\ script.step < Len(TestCalls(script.test))
    /\ op' = TestCalls(script.test)[script.step + 1]
    /\ script' = [script EXCEPT !.step = @ + 1]
    /\ pc' = "by_type"
    /\ UNCHANGED <<by_type, locator_value, key, polls, page, element, trace,
                   logs, lookups, err, result>>
    /\ UNCHANGED <<store, cfgVars, runVars, found, site, flow>>

\* assert <returned text> == <expected text>
LoginAssert ==
    /\ phase = "test"
    /\ pc = "done"
    /\ result.kind = "return"
    /\ AtAssert
    /\ phase' = "teardown"
    /\ outcome' = [kind |-> IF result.val = Asserted(script.test)
                            THEN "passed" ELSE "failed",
                   err |-> NoError]
    /\ UNCHANGED <<store, cfgVars, cli_browser, headless, files, browser_name,
                   consulted, attempts, sessions, web_driver, actVars,
                   flowVars>>

Call(name, locator, text) ==
    /\ phase = "test"
    /\ pc = "idle"
    /\ script.test = ""
    /\ op' = [name |-> name, locator |-> locator, text |-> text]
    /\ pc' = IF name = "press_key" THEN "key" ELSE "by_type"
    /\ UNCHANGED <<by_type, locator_value, key, polls, page, element, trace,
                   logs, lookups, err, result>>
    /\ UNCHANGED <<store, cfgVars, runVars, found, flowVars>>

\* press_key, lines 95-97
PressKeyLookup ==
    /\ pc = "key"
    /\ IF KeyFor(op.text) = NoKey
       THEN /\ Raises(Error("UnknownKey", op.text))
            /\ key' = key
       ELSE /\ key' = KeyFor(op.text)
            /\ pc' = "by_type"
            /\ UNCHANGED <<err, logs, result>>
    /\ UNCHANGED <<op, by_type, locator_value, polls, page, element, trace,
                   lookups>>
    /\ UNCHANGED <<store, cfgVars, runVars, found, flowVars>>

\* by_type = self._get_by_type(locator)
ResolveStrategy ==
    /\ pc = "by_type"
    /\ LET r == _get_by_type(op.locator)
       IN  IF r.ok
           THEN /\ by_type' = r.by
                /\ pc' = "readconfig"
                /\ UNCHANGED <<err, logs, result>>
           ELSE /\ Raises(r.err)
                /\ by_type' = by_type
    /\ UNCHANGED <<op, locator_value, key, polls, page, element, trace,
                   lookups>>
    /\ UNCHANGED <<store, cfgVars, runVars, found, flowVars>>

\* locator_value = ConfigReader.readconfig("locators", locator)
LookupSelector ==
    /\ pc = "readconfig"
    /\ lookups' = lookups + 1
    /\ LET r == readconfig(store, "locators", op.locator)
       IN  IF r.ok
           THEN /\ locator_value' = r.val
                /\ pc' = "wait"
                /\ UNCHANGED <<err, logs, result>>
           ELSE /\ Raises(r.err)
                /\ locator_value' = locator_value
    /\ UNCHANGED <<op, by_type, key, polls, page, element, trace>>
    /\ UNCHANGED <<store, cfgVars, runVars, found, flowVars>>

\* An element of the page as a poll sees it.
El(id, displayed, enabled) ==
    [id |-> id, displayed |-> displayed, enabled |-> enabled]

\* What one poll can find for the selector, in document order: nothing, one
\* clickable element, a hidden element before a clickable one, two clickable
\* elements, a disabled element.
Pages ==
    {<<>>,
     <<El(1, TRUE, TRUE)>>,
     <<El(1, FALSE, TRUE), El(2, TRUE, TRUE)>>,
     <<El(2, TRUE, TRUE), El(1, TRUE, TRUE)>>,
     <<El(1, TRUE, FALSE)>>}

\* What one poll observes: the driver raises, or it reports the matches.
Observations ==
    {[raises |-> TRUE, matches |-> <<>>]}
        \cup {[raises |-> FALSE, matches |-> m] : m \in Pages}

\* A condition that takes the first match that is displayed and enabled,
\* wherever it stands among the matches.
ConditionValue_any(condition, matches) ==
    LET ready == {i \in 1..Len(matches) :
                     matches[i].displayed /\ matches[i].enabled}
    IN  IF ready = {} THEN 0
        ELSE matches[CHOOSE i \in ready : \A j \in ready : i <= j].id

\* The value of the expected condition on the matches (0: falsy).  Each
\* condition calls driver.find_element, which takes the first match in
\* document order (no match: NoSuchElementException, which the wait
\* ignores), and tests that one element.
ConditionValue(condition, matches) ==
    IF matches = <<>> THEN 0
    ELSE LET target == matches[1]
         IN  CASE condition = "element_to_be_clickable" ->
                    IF target.displayed /\ target.enabled
                    THEN target.id ELSE 0
               [] condition = "visibility_of_element_located" ->
                    IF target.displayed THEN target.id ELSE 0
               [] OTHER -> target.id

\* The match lists a poll for selector can see on the site: an element of
\* the login form only while the login page is up, the inventory title only
\* on the inventory page, the error banner only while it is shown; a page
\* still loading shows no match.
Shown(st, selector) ==
    CASE selector \in {V_username, V_password, V_button} ->
            IF st.page = "login" THEN Pages ELSE {<<>>}
      [] selector = V_title ->
            IF st.page = "inventory" THEN Pages ELSE {<<>>}
      [] selector = V_error ->
            IF st.page = "login" /\ st.error # "" THEN Pages ELSE {<<>>}
      [] OTHER -> Pages

\* The driver events of a login test are kept in flow.
Recorded(event, locator, arg) ==
    IF script.test = "" THEN flow
    ELSE Append(flow, [event |-> event, locator |-> locator, arg |-> arg])

\* One poll of WebDriverWait(self.driver, timeout).until(condition): the
\* driver raises, or the condition is evaluated on what the page shows: a
\* truthy value ends the wait, a falsy one leaves it polling until the
\* timeout elapses (after MaxPolls polls).
Poll(obs) ==
    /\ pc = "wait"
    /\ obs.raises \/ obs.matches \in Shown(site, locator_value)
    /\ polls' = polls + 1
    /\ LET value == ConditionValue(WaitCondition(op.name), obs.matches)
       IN  IF obs.raises
           THEN /\ Raises(Error("WebDriverException", op.locator))
                /\ UNCHANGED <<page, element, flow>>
           ELSE /\ page' = obs.matches
                /\ IF value # 0
                   THEN /\ element' = value
                        /\ flow' = Recorded("acquire", op.locator, <<>>)
                        /\ pc' = IF op.name = "get_element_count"
                                 THEN "find"
                                 ELSE IF DriverActions(op.name) = <<>>
                                 THEN "log" ELSE "act"
                        /\ UNCHANGED <<err, logs, result>>
                   ELSE /\ UNCHANGED <<element, flow>>
                        /\ IF polls + 1 >= MaxPolls
                           THEN Raises(Error("TimeoutException", op.locator))
                           ELSE UNCHANGED <<pc, err, logs, result>>
    /\ UNCHANGED <<op, by_type, locator_value, key, trace, lookups>>
    /\ UNCHANGED <<store, cfgVars, runVars, found, site, script>>

\* _get_elements, line 62: self.driver.find_elements(by_type,
\* locator_value) returns whatever matches the selector when it is called,
\* which need not be what the presence wait saw, or the driver raises.
FindElements(obs) ==
    /\ pc = "find"
    /\ obs.raises \/ obs.matches \in Shown(site, locator_value)
    /\ IF obs.raises
       THEN /\ Raises(Error("WebDriverException", op.locator))
            /\ found' = found
       ELSE /\ found' = [i \in 1..Len(obs.matches) |-> obs.matches[i].id]
            /\ pc' = "log"
            /\ UNCHANGED <<err, logs, result>>
    /\ UNCHANGED <<op, by_type, locator_value, key, polls, page, element,
                   trace, lookups>>
    /\ UNCHANGED <<store, cfgVars, runVars, flowVars>>

\* The next element call of the operation; it succeeds or raises.
ElementAction(ok) ==
    /\ pc = "act"
    /\ LET call == DriverActions(op.name)[Len(trace) + 1]
           arg == IF call # "send_keys" THEN <<>>
                  ELSE IF op.name = "press_key" THEN key ELSE op.text
       IN  /\ trace' = Append(trace, [call |-> call, arg |-> arg, ok |-> ok])
           /\ IF ok
              THEN /\ pc' = IF Len(trace) + 1 = Len(DriverActions(op.name))
                            THEN "log" ELSE "act"
                   /\ site' = SiteAfter(site, locator_value, call, arg)
                   /\ flow' = Recorded(call, op.locator, arg)
                   /\ UNCHANGED <<err, logs, result>>
              ELSE /\ Raises(Error("WebDriverException", op.locator))
                   /\ UNCHANGED <<site, flow>>
    /\ UNCHANGED <<op, by_type, locator_value, key, polls, page, element,
                   lookups>>
    /\ UNCHANGED <<store, cfgVars, runVars, found, script>>

\* str(count) for the counts of the model.
CountText == [n \in 0..2 |-> IF n = 0 THEN "0" ELSE IF n = 1 THEN "1" ELSE "2"]

\* Log.logger.info(...) and the return
LogSuccess ==
    /\ pc = "log"
    /\ logs' = IF SuccessLog(op.name) = "" THEN logs
               ELSE Append(logs, SuccessLog(op.name))
    /\ result' = Returned(CASE op.name = "is_displayed" -> "True"
                            [] op.name = "get_element_count" ->
                                 CountText[Len(found)]
                            [] op.name \in TextReads ->
                                 ElementText(site, locator_value)
                            [] OTHER -> "None")
    /\ pc' = "done"
    /\ UNCHANGED <<op, by_type, locator_value, key, polls, page, element,
                   trace, lookups, err>>
    /\ UNCHANGED <<store, cfgVars, runVars, found, flowVars>>

\* The call returned to its caller, which goes on (to its end, or to
\* another call).
Return ==
    /\ phase = "test"
    /\ pc = "done"
    /\ result.kind = "return"
    /\ ~AtAssert
    /\ pc' = "idle"
    /\ op' = NoOp
    /\ by_type' = ""
    /\ locator_value' = <<>>
    /\ key' = NoKey
    /\ polls' = 0
    /\ page' = <<>>
    /\ element' = 0
    /\ found' = <<>>
    /\ trace' = <<>>
    /\ logs' = <<>>
    /\ lookups' = 0
    /\ err' = NoError
    /\ result' = NoResult
    /\ UNCHANGED <<store, cfgVars, runVars, flowVars>>

(***************************************************************************)
(* Driver provisioning (tests/conftest.py).                                *)
(***************************************************************************)
B_chrome == <<"c","h","r","o","m","e">>
B_firefox == <<"f","i","r","e","f","o","x">>
B_edge == <<"e","d","g","e">>

DRIVERS_DIR == "drivers"
_MANUAL_DRIVER_NAMES ==
    (B_chrome :> "chromedriver") @@ (B_firefox :> "geckodriver") @@
    (B_edge :> "msedgedriver")

NoCli == [given |-> FALSE, val |-> <<>>]
Cli(v) == [given |-> TRUE, val |-> v]

Named(name, n) == [name |-> name, consulted |-> n, err |-> NoError]
NotNamed(e, n) == [name |-> <<>>, consulted |-> n, err |-> e]

\* A resolution that reads the configured default before the CLI flag.
_get_browser_name_config_first(cli, st) ==
    LET r == readconfig(st, "browser", K_default_browser)
    IN  IF r.ok THEN Named(Lower(r.val), 1)
        ELSE IF cli.given /\ cli.val # <<>> THEN Named(Lower(cli.val), 1)
        ELSE Named(B_chrome, 1)

\* _get_browser_name: "if cli_browser:" is false for None and for "".
_get_browser_name(cli, st) ==
    IF cli.given /\ cli.val # <<>>
    THEN Named(Lower(cli.val), 0)
    ELSE LET r == readconfig(st, "browser", K_default_browser)
         IN  IF r.ok THEN Named(Lower(r.val), 1)
             ELSE Named(B_chrome, 1)

NoPath == <<>>

_find_manual_driver_never(browser, fs) == NoPath

_find_manual_driver(browser, fs) ==
    IF browser \notin DOMAIN _MANUAL_DRIVER_NAMES THEN NoPath
    ELSE IF _MANUAL_DRIVER_NAMES[browser] \in fs
    THEN <<DRIVERS_DIR, _MANUAL_DRIVER_NAMES[browser]>>
    ELSE NoPath

\* The arguments added to the options, in the order of the add_argument
\* calls.
ChromiumHeadlessArgs ==
    <<"--headless=new", "--no-sandbox", "--disable-dev-shm-usage",
      "--disable-gpu", "--window-size=1920,1080">>
FirefoxHeadlessArgs == <<"--headless", "--width=1920", "--height=1080">>

Session(tier, browser, path, options) ==
    [tier |-> tier, browser |-> browser, path |-> path, options |-> options,
     maximized |-> FALSE, url |-> <<>>, open |-> TRUE, quits |-> 0]
NoSession == [Session("", <<>>, NoPath, <<>>) EXCEPT !.open = FALSE]

Launched(s) == [ok |-> TRUE, session |-> s, err |-> NoError]
NotLaunched(e) == [ok |-> FALSE, session |-> NoSession, err |-> e]

\* launches: whether the webdriver constructor returns (TRUE) or raises.
_create_driver_auto(browser, hl, launches) ==
    IF browser = B_chrome
    THEN IF launches
         THEN Launched(Session("auto", browser, NoPath,
                               IF hl THEN ChromiumHeadlessArgs ELSE <<>>))
         ELSE NotLaunched(Error("WebDriverException", browser))
    ELSE IF browser = B_firefox
    THEN IF launches
         THEN Launched(Session("auto", browser, NoPath,
                               IF hl THEN FirefoxHeadlessArgs ELSE <<>>))
         ELSE NotLaunched(Error("WebDriverException", browser))
    ELSE IF browser = B_edge
    THEN IF launches
         THEN Launched(Session("auto", browser, NoPath,
                               IF hl THEN ChromiumHeadlessArgs ELSE <<>>))
         ELSE NotLaunched(Error("WebDriverException", browser))
    ELSE NotLaunched(Error("UnsupportedBrowser", browser))

\* A manual tier that launches chrome with the headless argument alone.
_create_driver_with_manual_path_bare(browser, driver_path, hl, launches) ==
    IF browser = B_chrome
    THEN IF launches
         THEN Launched(Session("manual", browser, driver_path,
                               IF hl THEN <<"--headless=new">> ELSE <<>>))
         ELSE NotLaunched(Error("WebDriverException", browser))
    ELSE IF browser = B_firefox
    THEN IF launches
         THEN Launched(Session("manual", browser, driver_path,
                               IF hl THEN FirefoxHeadlessArgs ELSE <<>>))
         ELSE NotLaunched(Error("WebDriverException", browser))
    ELSE IF browser = B_edge
    THEN IF launches
         THEN Launched(Session("manual", browser, driver_path,
                               IF hl THEN ChromiumHeadlessArgs ELSE <<>>))
         ELSE NotLaunched(Error("WebDriverException", browser))
    ELSE NotLaunched(Error("UnsupportedBrowser", browser))

_create_driver_with_manual_path(browser, driver_path, hl, launches) ==
    IF browser = B_chrome
    THEN IF launches
         THEN Launched(Session("manual", browser, driver_path,
                               IF hl THEN ChromiumHeadlessArgs ELSE <<>>))
         ELSE NotLaunched(Error("WebDriverException", browser))
    ELSE IF browser = B_firefox
    THEN IF launches
         THEN Launched(Session("manual", browser, driver_path,
                               IF hl THEN FirefoxHeadlessArgs ELSE <<>>))
         ELSE NotLaunched(Error("WebDriverException", browser))
    ELSE IF browser = B_edge
    THEN IF launches
         THEN Launched(Session("manual", browser, driver_path,
                               IF hl THEN ChromiumHeadlessArgs ELSE <<>>))
         ELSE NotLaunched(Error("WebDriverException", browser))
    ELSE NotLaunched(Error("UnsupportedBrowser", browser))

\* The RuntimeError of lines 191-197: it names the browser, says that the
\* auto driver setup failed and states the path where no driver was found.
DriverUnavailable(browser) ==
    [type |-> "RuntimeError", arg |-> browser,
     path |-> <<DRIVERS_DIR,
                IF browser \in DOMAIN _MANUAL_DRIVER_NAMES
                THEN _MANUAL_DRIVER_NAMES[browser] ELSE "?">>]

Attempt(tier, e) == [tier |-> tier, err |-> e]
Created(ss, as) ==
    [ok |-> TRUE, sessions |-> ss, attempts |-> as, driver |-> Len(ss),
     err |-> NoError]
NotCreated(ss, as, e) ==
    [ok |-> FALSE, sessions |-> ss, attempts |-> as, driver |-> 0, err |-> e]

\* driver.maximize_window(), skipped when headless; maximizes: whether the
\* call returns or raises.
AfterMaximize(s, hl, maximizes) ==
    IF ~hl /\ maximizes THEN [s EXCEPT !.maximized = TRUE] ELSE s

\* _create_driver.  env says how each call into selenium ends: the two
\* constructors and the two maximize_window calls return or raise.
_create_driver(browser, hl, fs, env) ==
    LET auto == _create_driver_auto(browser, hl, env.autoLaunch)
        autoReturns == auto.ok /\ (hl \/ env.autoMax)
        manager_err == IF ~auto.ok THEN auto.err
                       ELSE Error("WebDriverException", browser)
        autoSessions ==
            IF auto.ok THEN <<AfterMaximize(auto.session, hl, env.autoMax)>>
            ELSE <<>>
        manual_path == _find_manual_driver(browser, fs)
        manual == _create_driver_with_manual_path(browser, manual_path, hl,
                                                  env.manualLaunch)
        manualReturns == manual.ok /\ (hl \/ env.manualMax)
        manualSessions ==
            IF manual.ok
            THEN <<AfterMaximize(manual.session, hl, env.manualMax)>>
            ELSE <<>>
        manualErr == IF ~manual.ok THEN manual.err
                     ELSE Error("WebDriverException", browser)
    IN  IF autoReturns
        THEN Created(autoSessions, <<Attempt("auto", NoError)>>)
        ELSE IF manual_path = NoPath
        THEN NotCreated(autoSessions, <<Attempt("auto", manager_err)>>,
                        DriverUnavailable(browser))
        ELSE IF manualReturns
        THEN Created(autoSessions \o manualSessions,
                     <<Attempt("auto", manager_err),
                       Attempt("manual", NoError)>>)
        ELSE NotCreated(autoSessions \o manualSessions,
                        <<Attempt("auto", manager_err),
                          Attempt("manual", manualErr)>>,
                        manualErr)

(***************************************************************************)
(* The fixtures, as pytest runs them: the driver fixture up to its yield,  *)
(* navigate_to_saucedemo, the test body, and the driver fixture's code     *)
(* after the yield.  pytest runs the code after the yield of every fixture *)
(* whose setup completed, whatever came after; a fixture whose setup       *)
(* raised never yielded and has nothing to tear down.                      *)
(***************************************************************************)
NoOutcome == [kind |-> "none", err |-> NoError]
Envs == [autoLaunch : BOOLEAN, autoMax : BOOLEAN,
         manualLaunch : BOOLEAN, manualMax : BOOLEAN]

\* driver fixture, lines 208-211
DriverSetup(env) ==
    /\ phase = "setup"
    /\ LET named == _get_browser_name(cli_browser, store)
           made == _create_driver(named.name, headless, files, env)
       IN  IF named.err # NoError
           THEN /\ phase' = "end"
                /\ outcome' = [kind |-> "error", err |-> named.err]
                /\ consulted' = named.consulted
                /\ UNCHANGED <<browser_name, attempts, sessions, web_driver>>
           ELSE /\ browser_name' = named.name
                /\ consulted' = named.consulted
                /\ attempts' = made.attempts
                /\ sessions' = made.sessions
                /\ web_driver' = made.driver
                /\ IF made.ok
                   THEN /\ phase' = "navigate"
                        /\ outcome' = outcome
                   ELSE /\ phase' = "end"
                        /\ outcome' = [kind |-> "error", err |-> made.err]
    /\ UNCHANGED <<store, cfgVars, cli_browser, headless, files, actVars,
                   flowVars>>

\* navigate_to_saucedemo, lines 222-224; loads: driver.get returns or raises.
Navigate(loads) ==
    /\ phase = "navigate"
    /\ LET url == readconfig(store, "locators", K_url)
       IN  IF ~url.ok
           THEN /\ phase' = "teardown"
                /\ outcome' = [kind |-> "error", err |-> url.err]
                /\ sessions' = sessions
           ELSE IF loads
           THEN /\ phase' = "test"
                /\ outcome' = outcome
                /\ sessions' = [sessions EXCEPT ![web_driver].url = url.val]
           ELSE /\ phase' = "teardown"
                /\ outcome' = [kind |-> "error",
                               err |-> Error("WebDriverException", url.val)]
                /\ sessions' = sessions
    /\ UNCHANGED <<store, cfgVars, cli_browser, headless, files, browser_name,
                   consulted, attempts, web_driver, actVars,
                   flowVars>>

\* The test body ends: its assertion held ("passed") or not ("failed").
TestFinish(verdict) ==
    /\ phase = "test"
    /\ pc = "idle"
    /\ phase' = "teardown"
    /\ outcome' = [kind |-> verdict, err |-> NoError]
    /\ UNCHANGED <<store, cfgVars, cli_browser, headless, files, browser_name,
                   consulted, attempts, sessions, web_driver, actVars,
                   flowVars>>

\* An Action Layer call raised: the test body has no handler.
TestRaises ==
    /\ phase = "test"
    /\ pc = "done"
    /\ result.kind = "raise"
    /\ phase' = "teardown"
    /\ outcome' = [kind |-> "raised", err |-> result.err]
    /\ UNCHANGED <<store, cfgVars, cli_browser, headless, files, browser_name,
                   consulted, attempts, sessions, web_driver, actVars,
                   flowVars>>

\* A teardown that quits only after a test that passed.
DriverTeardown_on_pass ==
    /\ phase = "teardown"
    /\ sessions' = IF outcome.kind = "passed"
                   THEN [sessions EXCEPT ![web_driver].open = FALSE,
                                         ![web_driver].quits = @ + 1]
                   ELSE sessions
    /\ phase' = "end"
    /\ UNCHANGED <<store, cfgVars, cli_browser, headless, files, browser_name,
                   consulted, attempts, web_driver, outcome, actVars,
                   flowVars>>

\* driver fixture, line 212: web_driver.quit()
DriverTeardown ==
    /\ phase = "teardown"
    /\ sessions' = [sessions EXCEPT ![web_driver].open = FALSE,
                                    ![web_driver].quits = @ + 1]
    /\ phase' = "end"
    /\ UNCHANGED <<store, cfgVars, cli_browser, headless, files, browser_name,
                   consulted, attempts, web_driver, outcome, actVars,
                   flowVars>>

(***************************************************************************)
(* Specifications.                                                         *)
(***************************************************************************)
CliValues == {NoCli, Cli(<<>>), Cli(<<"C","h","r","o","m","e">>),
              Cli(<<"E","D","G","E">>), Cli(<<"s","a","f","a","r","i">>)}
FileSets == {{}, {"chromedriver", "geckodriver"}}

ActIdle ==
    /\ pc = "idle"
    /\ op = NoOp
    /\ by_type = ""
    /\ locator_value = <<>>
    /\ key = NoKey
    /\ polls = 0
    /\ page = <<>>
    /\ element = 0
    /\ found = <<>>
    /\ trace = <<>>
    /\ logs = <<>>
    /\ lookups = 0
    /\ err = NoError
    /\ result = NoResult

\* No login test is running.
NoLogin ==
    /\ site = FreshSite
    /\ script = NoScript
    /\ flow = <<>>

CfgIdle ==
    /\ cfgCall = NoCall
    /\ cfgResult = Ok(<<>>)
    /\ cfgStored = NoStored

\* A test run about to start.
Init ==
    /\ store \in Stores
    /\ CfgIdle
    /\ phase = "setup"
    /\ cli_browser \in CliValues
    /\ headless \in BOOLEAN
    /\ files \in FileSets
    /\ browser_name = <<>>
    /\ consulted = 0
    /\ attempts = <<>>
    /\ sessions = <<>>
    /\ web_driver = 0
    /\ outcome = NoOutcome
    /\ ActIdle
    /\ NoLogin

\* The statements of an Action Layer call, one after the other.
AcquireAndAct ==
    \/ ResolveStrategy
    \/ LookupSelector
    \/ \E obs \in Observations : Poll(obs)
    \/ \E ok \in BOOLEAN : ElementAction(ok)
    \/ LogSuccess

Step ==
    \/ PressKeyLookup
    \/ AcquireAndAct

\* What runs once the driver fixture has yielded.
AfterYield ==
    \/ \E loads \in BOOLEAN : Navigate(loads)
    \/ \E name \in OpNames, locator \in LocatorNames :
          \E text \in ArgsFor(name) : Call(name, locator, text)
    \/ Step
    \/ Return
    \/ \E verdict \in {"passed", "failed"} : TestFinish(verdict)
    \/ TestRaises
    \/ DriverTeardown

Next ==
    \/ \E env \in Envs : DriverSetup(env)
    \/ AfterYield

Spec == Init /\ [][Next]_vars

\* The config reader used on its own while the file is edited from outside.
InitConfig ==
    /\ store \in Stores
    /\ CfgIdle
    /\ phase = "end"
    /\ cli_browser = NoCli
    /\ headless = FALSE
    /\ files = {}
    /\ browser_name = <<>>
    /\ consulted = 0
    /\ attempts = <<>>
    /\ sessions = <<>>
    /\ web_driver = 0
    /\ outcome = NoOutcome
    /\ ActIdle
    /\ NoLogin

NextConfig ==
    \/ \E section \in Sections, option \in EditedOptions, raw \in RawValues :
          ExternalWrite(section, option, raw)
    \/ \E section \in Sections, option \in EditedOptions :
          ExternalRemoveOption(section, option)
    \/ \E section \in Sections : ExternalRemoveSection(section)
    \/ \E section \in Sections, option \in EditedOptions :
          ReadConfigCall(section, option)

SpecConfig == InitConfig /\ [][NextConfig]_vars

\* A test body making Action Layer calls on a session that the fixtures
\* provisioned and navigated without error.  The interpreter runs the
\* statements of a call to its end: a call that can take a step takes it.
AllReturn == [autoLaunch |-> TRUE, autoMax |-> TRUE,
              manualLaunch |-> TRUE, manualMax |-> TRUE]

InitWait ==
    /\ store = StoreFull
    /\ CfgIdle
    /\ phase = "test"
    /\ cli_browser = NoCli
    /\ headless \in BOOLEAN
    /\ files = {}
    /\ LET named == _get_browser_name(cli_browser, store)
           made == _create_driver(named.name, headless, files, AllReturn)
       IN  /\ browser_name = named.name
           /\ consulted = named.consulted
           /\ attempts = made.attempts
           /\ sessions = [made.sessions EXCEPT ![made.driver].url = V_url]
           /\ web_driver = made.driver
    /\ outcome = NoOutcome
    /\ ActIdle
    /\ NoLogin

NextWait ==
    \/ \E name \in OpNames \cup {"get_element_count"},
          locator \in LocatorNames :
          \E text \in ArgsFor(name) : Call(name, locator, text)
    \/ Step
    \/ \E obs \in Observations : FindElements(obs)
    \/ Return

SpecWait == InitWait /\ [][NextWait]_vars /\ WF_vars(Step)

\* One of the two login tests, from the moment navigate_to_saucedemo handed
\* it the session to the end of the run.
InitLogin ==
    /\ store = StoreLogin
    /\ CfgIdle
    /\ phase = "test"
    /\ cli_browser = NoCli
    /\ headless \in BOOLEAN
    /\ files = {}
    /\ LET named == _get_browser_name(cli_browser, store)
           made == _create_driver(named.name, headless, files, AllReturn)
       IN  /\ browser_name = named.name
           /\ consulted = named.consulted
           /\ attempts = made.attempts
           /\ sessions = [made.sessions EXCEPT ![made.driver].url = V_url]
           /\ web_driver = made.driver
    /\ outcome = NoOutcome
    /\ ActIdle
    /\ site = FreshSite
    /\ script \in [test : Tests, step : {0}]
    /\ flow = <<>>

NextLogin ==
    \/ LoginCall
    \/ AcquireAndAct
    \/ Return
    \/ LoginAssert
    \/ TestRaises
    \/ DriverTeardown

SpecLogin == InitLogin /\ [][NextLogin]_vars

\* The fixtures alone: the session is provisioned, the site is loaded, the
\* session is released; any of the driver binaries may be present.
DriverBinaries == {"chromedriver", "geckodriver", "msedgedriver"}
CliBrowsers == {NoCli, Cli(B_chrome), Cli(B_firefox),
                Cli(<<"E","D","G","E">>), Cli(<<"s","a","f","a","r","i">>)}

InitProvision ==
    /\ store \in {StoreFull, StoreNoBrowser}
    /\ CfgIdle
    /\ phase = "setup"
    /\ cli_browser \in CliBrowsers
    /\ headless \in BOOLEAN
    /\ files \in SUBSET DriverBinaries
    /\ browser_name = <<>>
    /\ consulted = 0
    /\ attempts = <<>>
    /\ sessions = <<>>
    /\ web_driver = 0
    /\ outcome = NoOutcome
    /\ ActIdle
    /\ NoLogin

NextProvision ==
    \/ \E env \in Envs : DriverSetup(env)
    \/ \E loads \in BOOLEAN : Navigate(loads)
    \/ DriverTeardown

SpecProvision == InitProvision /\ [][NextProvision]_vars

(***************************************************************************)
(* Claims.                                                                 *)
(***************************************************************************)

\* What the naming convention says, as a table: suffix, strategy.
SuffixTable ==
    {<<S_XPATH, "xpath">>, <<S_ID, "id">>, <<S_NAME, "name">>,
     <<S_CSS, "css selector">>, <<S_CLASS, "class name">>,
     <<S_LINKTEXT, "link text">>,
     <<S_PARTIALLINKTEXT, "partial link text">>}
Matching(locator) == {row \in SuffixTable : EndsWith(locator, row[1])}

\* The current call is past its _get_by_type step.
ResolutionRan ==
    \/ pc \in {"readconfig", "wait", "act", "log"}
    \/ pc = "done" /\ err.type # "UnknownKey"

\* C1: a locator name ending in a recognised suffix resolves to exactly the
\* strategy of that suffix (a name ending in _PARTIALLINKTEXT never to link
\* text); any other name fails with the unsupported-locator-type error
\* carrying the name, before any registry lookup or driver call.
C1_ResolverBySuffix ==
    ResolutionRan =>
        IF Matching(op.locator) = {}
        THEN /\ pc = "done"
             /\ err = Error("UnsupportedLocatorType", op.locator)
             /\ lookups = 0
             /\ polls = 0
             /\ trace = <<>>
        ELSE /\ Cardinality(Matching(op.locator)) = 1
             /\ \A row \in Matching(op.locator) : by_type = row[2]
             /\ err.type # "UnsupportedLocatorType"
             /\ EndsWith(op.locator, S_PARTIALLINKTEXT) => by_type # "link text"

C1_Witness ==
    /\ pc = "readconfig"
    /\ op.locator = <<"a">> \o S_PARTIALLINKTEXT
    /\ by_type = "partial link text"

\* The manual binary of the requested browser is in drivers/.
ManualBinaryExists ==
    /\ browser_name \in DOMAIN _MANUAL_DRIVER_NAMES
    /\ _MANUAL_DRIVER_NAMES[browser_name] \in files

ManualPath == <<DRIVERS_DIR, _MANUAL_DRIVER_NAMES[browser_name]>>

\* The order of the tiers: the automatic tier first, the manual tier only
\* after the automatic tier raised, each at most once.
TierOrder ==
    /\ Len(attempts) \in {1, 2}
    /\ attempts[1].tier = "auto"
    /\ Len(attempts) = 2 =>
          /\ attempts[2].tier = "manual"
          /\ attempts[1].err # NoError
    /\ attempts[1].err = NoError =>
          /\ Len(attempts) = 1
          /\ web_driver = 1
          /\ sessions[web_driver].tier = "auto"

C3_DriverUnavailableAlways ==
    (attempts # <<>> /\ web_driver = 0) =>
        /\ outcome.kind = "error"
        /\ outcome.err.type = "RuntimeError"
        /\ outcome.err.arg = browser_name
        /\ outcome.err.path =
              <<DRIVERS_DIR,
                IF browser_name \in DOMAIN _MANUAL_DRIVER_NAMES
                THEN _MANUAL_DRIVER_NAMES[browser_name] ELSE "?">>

\* C4: the session the driver fixture yielded is quit exactly once by the
\* end of the run, whatever the test's outcome; it is not quit before the
\* teardown, and a run that holds a session cannot stop before its end.
C4_YieldedSessionQuit ==
    /\ phase \in {"navigate", "test", "teardown"} =>
          /\ web_driver # 0
          /\ sessions[web_driver].open
          /\ sessions[web_driver].quits = 0
    /\ (phase = "end" /\ web_driver # 0) =>
          /\ ~sessions[web_driver].open
          /\ sessions[web_driver].quits = 1
    /\ phase \in {"navigate", "test", "teardown"} => ENABLED AfterYield

C4_Witness ==
    /\ phase = "end"
    /\ outcome.kind = "raised"
    /\ web_driver # 0
    /\ sessions[web_driver].quits = 1
    /\ ~sessions[web_driver].open

\* C5: is_displayed returns False without raising when the element never
\* becomes visible within the timeout and True as soon as a poll sees it;
\* no other operation turns an error into a result, and the only error
\* is_displayed converts is the wait timeout.
C5_IsDisplayedOnlyTimeout ==
    pc = "done" =>
        IF op.name = "is_displayed"
        THEN /\ result.kind = "return"
             /\ result.val = "True" => err = NoError
             /\ result.val = "False" => err.type = "TimeoutException"
             /\ err.type = "TimeoutException" => result.val = "False"
        ELSE err # NoError => result.kind = "raise"

KnownKey(key_name) == \E k \in DOMAIN Keys : Lower(k) = Lower(key_name)

\* C7: press_key with a known key name in any case sends that key's code
\* (enter, tab and escape among them) to the acquired element; with any
\* other name it fails with the UnknownKey error before the element is
\* acquired, and nothing is sent.
C7_PressKey ==
    (op.name = "press_key" /\ pc \notin {"idle", "key"}) =>
        IF KnownKey(op.text)
        THEN /\ err.type # "UnknownKey"
             /\ \A k \in DOMAIN Keys : Lower(k) = Lower(op.text) => key = Keys[k]
             /\ Lower(op.text) = <<"e","n","t","e","r">> => key = <<"\\ue007">>
             /\ Lower(op.text) = <<"t","a","b">> => key = <<"\\ue004">>
             /\ Lower(op.text) = <<"e","s","c","a","p","e">> => key = <<"\\ue00c">>
             /\ \A i \in 1..Len(trace) :
                   trace[i] = [call |-> "send_keys", arg |-> key,
                               ok |-> trace[i].ok]
             /\ (pc = "done" /\ result.kind = "return") =>
                   trace = <<[call |-> "send_keys", arg |-> key, ok |-> TRUE]>>
        ELSE /\ pc = "done"
             /\ err = Error("UnknownKey", op.text)
             /\ result = Raised(err)
             /\ lookups = 0
             /\ polls = 0
             /\ trace = <<>>

C7_Witness ==
    /\ pc = "done"
    /\ op.name = "press_key"
    /\ op.text = <<"E","n","T","e","R">>
    /\ result.kind = "return"
    /\ trace = <<[call |-> "send_keys", arg |-> <<"\\ue007">>, ok |-> TRUE]>>

\* C8: a readconfig call on a pair present in the store returns exactly
\* the string stored at the time of the call.
C8_ReturnsStoredString ==
    (cfgCall.made /\ cfgStored.present) => cfgResult = Ok(cfgStored.raw)

\* C9: a lookup of an absent section or key fails with ConfigKeyNotFound,
\* and that error reaches the caller of the operation that made the lookup
\* unmodified: the Action Layer call ends by raising it, and so does the
\* navigate_to_saucedemo fixture.
C9_LookupErrorReachesCaller ==
    /\ (pc = "done" /\ err.type \in ConfigKeyNotFound) => result = Raised(err)
    /\ (phase \in {"teardown", "end"} /\ web_driver # 0
        /\ ~readconfig(store, "locators", K_url).ok) =>
          outcome = [kind |-> "error",
                     err |-> readconfig(store, "locators", K_url).err]

\* The driver fixture has resolved the browser name.
NameResolved == phase # "setup"

UsesGetElement ==
    op.name # "" /\ WaitCondition(op.name) = "element_to_be_clickable"

\* The first element matching the selector is displayed and enabled.
FirstMatchClickable(matches) ==
    matches # <<>> /\ matches[1].displayed /\ matches[1].enabled

\* What holds of a call that goes through _get_element, at every step.
GetElementOutcome ==
    UsesGetElement =>
        /\ polls <= MaxPolls
        /\ pc = "wait" => element = 0 /\ polls < MaxPolls
        /\ pc \in {"act", "log"} => element # 0
        /\ element # 0 =>
              /\ FirstMatchClickable(page)
              /\ element = page[1].id
              /\ err.type # "TimeoutException"
        /\ err.type = "TimeoutException" =>
              /\ ~FirstMatchClickable(page)
              /\ polls = MaxPolls
              /\ element = 0
              /\ trace = <<>>
              /\ result = Raised(Error("TimeoutException", op.locator))

\* C11: _get_element on a selector whose first match is never clickable at
\* a poll within the timeout fails with the timeout error and hands out no
\* element; when the first match is clickable at a poll it returns the
\* handle of that first matching element; and the wait always ends, with a
\* handle or an error, within the bounded number of polls.
C11_GetElementEnds ==
    /\ []GetElementOutcome
    /\ (pc = "wait") ~> (pc # "wait" /\ (element # 0 \/ err # NoError))

\* The first of two matches became clickable at the last poll before the
\* timeout and its handle was returned.
C11_Witness ==
    /\ UsesGetElement
    /\ pc = "act"
    /\ polls = MaxPolls
    /\ Len(page) = 2
    /\ element = page[1].id

\* The driver events the login flow is said to make, in order.
Event(event, locator, arg) ==
    [event |-> event, locator |-> locator, arg |-> arg]

ClaimedOrder(username, password, read) ==
    <<Event("acquire", L_username, <<>>), Event("clear", L_username, <<>>),
      Event("send_keys", L_username, username),
      Event("acquire", L_password, <<>>), Event("clear", L_password, <<>>),
      Event("send_keys", L_password, password),
      Event("acquire", L_button, <<>>), Event("click", L_button, <<>>),
      Event("acquire", read, <<>>), Event("text", read, <<>>)>>

ClaimedFlow(test) ==
    IF test = "test_verify_login_as_standard_user"
    THEN ClaimedOrder(T_standard_user, T_secret_sauce, L_title)
    ELSE ClaimedOrder(T_locked_out_user, T_secret_sauce, L_error)

ClaimedText(test) ==
    IF test = "test_verify_login_as_standard_user"
    THEN "Products"
    ELSE "Epic sadface: Sorry, this user has been locked out."

IsPrefix(a, b) == Len(a) <= Len(b) /\ a = SubSeq(b, 1, Len(a))

\* C12: the login flow makes its driver calls in one fixed order, each only
\* after the one before it succeeded: username field acquired, cleared,
\* typed into; password field acquired, cleared, typed into; login button
\* acquired, clicked.  On a site that answers standard_user / secret_sauce
\* with the inventory page and locked_out_user / secret_sauce with the
\* locked-out banner, the text read afterwards is "Products", respectively
\* the locked-out message.
C12_LoginFlow ==
    script.test # "" =>
        /\ IsPrefix(flow, ClaimedFlow(script.test))
        /\ \A i \in 1..(Len(trace) - 1) : trace[i].ok
        /\ err # NoError => result.kind = "raise"
        /\ (op.name \in TextReads /\ pc = "done" /\ result.kind = "return") =>
              /\ flow = ClaimedFlow(script.test)
              /\ result.val = ClaimedText(script.test)

\* The standard-user test got the inventory title back.
C12_Witness ==
    /\ script.test = "test_verify_login_as_standard_user"
    /\ op = get_inventory_page_title
    /\ pc = "done"
    /\ result = Returned("Products")
    /\ site.page = "inventory"
    /\ Len(flow) = 10

\* The arguments the launch options are said to hold when headless.
Contains(args, a) == \E i \in 1..Len(args) : args[i] = a
HasHeadless(args) ==
    Contains(args, "--headless") \/ Contains(args, "--headless=new")
HasDisableGpu(args) == Contains(args, "--disable-gpu")
HasNoSandbox(args) == Contains(args, "--no-sandbox")
HasWindowSize(args) ==
    \/ Contains(args, "--window-size=1920,1080")
    \/ Contains(args, "--width=1920") /\ Contains(args, "--height=1080")
NoneOfThem(args) ==
    /\ ~HasHeadless(args) /\ ~HasDisableGpu(args) /\ ~HasNoSandbox(args)
    /\ ~Contains(args, "--window-size=1920,1080")
    /\ ~Contains(args, "--width=1920") /\ ~Contains(args, "--height=1080")

\* The options the other provisioning tier builds for the session's browser.
OtherTierOptions(s) ==
    IF s.tier = "auto"
    THEN _create_driver_with_manual_path(
             s.browser, <<DRIVERS_DIR, _MANUAL_DRIVER_NAMES[s.browser]>>,
             headless, TRUE).session.options
    ELSE _create_driver_auto(s.browser, headless, TRUE).session.options

\* C13 as stated: every session launched, whatever its browser and tier,
\* has the headless argument, disable-GPU, disable-sandbox and a fixed
\* window size when headless is requested and none of them otherwise, and
\* the two tiers build the same options.
C13_UniformHeadlessOptions ==
    \A i \in 1..Len(sessions) :
        LET s == sessions[i]
        IN  /\ IF headless
               THEN /\ HasHeadless(s.options) /\ HasDisableGpu(s.options)
                    /\ HasNoSandbox(s.options) /\ HasWindowSize(s.options)
               ELSE NoneOfThem(s.options)
            /\ s.options = OtherTierOptions(s)

\* C13 amended: a chrome or edge session launched headless has the
\* headless argument, disable-GPU, disable-sandbox and a fixed window size;
\* a firefox session launched headless has the headless argument and a
\* fixed width and height but neither disable-GPU nor disable-sandbox; a
\* session launched without headless has none of these arguments; and in
\* every case the options equal those the other tier builds.
C13_HeadlessOptionsPerBrowser ==
    \A i \in 1..Len(sessions) :
        LET s == sessions[i]
        IN  /\ IF ~headless THEN NoneOfThem(s.options)
               ELSE IF s.browser = B_firefox
               THEN /\ HasHeadless(s.options) /\ HasWindowSize(s.options)
                    /\ ~HasDisableGpu(s.options) /\ ~HasNoSandbox(s.options)
               ELSE /\ HasHeadless(s.options) /\ HasDisableGpu(s.options)
                    /\ HasNoSandbox(s.options) /\ HasWindowSize(s.options)
            /\ s.options = OtherTierOptions(s)

\* A headless firefox session launched by the manual tier.
C13_Witness ==
    /\ headless
    /\ \E i \in 1..Len(sessions) :
          sessions[i].tier = "manual" /\ sessions[i].browser = B_firefox

\* get_element_count has its list, or has returned its count.
ElementsReturned ==
    /\ op.name = "get_element_count"
    /\ pc = "log" \/ (pc = "done" /\ result.kind = "return")

\* C14: _get_elements goes on to its single find-all call only once a poll
\* has seen a match, and fails with the timeout error, returning no list,
\* when no poll within the timeout saw one; whenever it returns, and so
\* whenever get_element_count returns, the list holds at least one
\* element, even if the page changed between the presence wait and the
\* find-all call.
C14_ElementsNonEmpty ==
    op.name = "get_element_count" =>
        /\ pc = "find" => page # <<>> /\ element = page[1].id
        /\ err.type = "TimeoutException" =>
              page = <<>> /\ found = <<>> /\ result.kind = "raise"
        /\ ElementsReturned => Len(found) >= 1
        /\ (pc = "done" /\ result.kind = "return") =>
              result.val \in {"1", "2"}

\* _create_driver has been called in this run.
CreateDriverRan == attempts # <<>>

\* C15: once _create_driver has ended, no session it launched is without
\* an owner: if it returned, exactly one session was launched, it is the
\* one returned, and it is maximized exactly when headless was not
\* requested; a session that is not the returned one (launched by a tier
\* whose window maximize then raised, before the fallback or the raise) is
\* not still running.
C15_NoOrphanSession ==
    CreateDriverRan =>
        /\ web_driver # 0 =>
              /\ Len(sessions) = 1
              /\ web_driver = 1
              /\ sessions[1].maximized = ~headless
        /\ \A i \in 1..Len(sessions) :
              i # web_driver => ~sessions[i].open

====
